---- MODULE Spec2Model ----
(***************************************************************************)
(* A model of tealeaf (src/tealeaf/core.py, src/tealeaf/headers.py):       *)
(* the case-normalising header store, Request construction, the           *)
(* credential preprocessors, Request.execute, Response dispatch and       *)
(* Api.request.                                                            *)
(*                                                                         *)
(* Representation of Python values:                                        *)
(*   - an optional value is a sequence of length <= 1: None is <<>> and a  *)
(*     present value x is <<x>>;                                           *)
(*   - a str is a sequence of pieces whose concatenation is the string; a  *)
(*     header name is spelled one character per piece, so that             *)
(*     str.lower() is computed character by character;                     *)
(*   - a dict is a sequence of <<key, value>> pairs with distinct keys, in *)
(*     insertion order (Python dicts keep insertion order);                *)
(*   - bytes are a sequence of tokens.                                     *)
(***************************************************************************)
EXTENDS Integers, Sequences, FiniteSets, TLC

VARIABLES
    store,      \* SpecHeaders: the LowerCase dict under test
    lastw,      \* SpecHeaders: per name, the value last written under any case variant
    hres,       \* SpecHeaders: the last operation and what it returned
    credentials,\* Api.credentials
    raise_for_status, \* Api.raise_for_status
    pc,         \* position of the current Api.request call
    arg,        \* the arguments of the current Api.request call
    req,        \* the Request object of the current call
    members,    \* the credential objects (state of Api.credentials' members)
    ci,         \* CredentialChain.preprocess_request: index of the next credential
    tmpfiles,   \* temporary files that exist on disk
    exc,        \* the exception the current call raised ("" if none)
    req0,       \* the pipeline state when preprocessing started
    prev,       \* the pipeline state before the last preprocess step
    wire,       \* what the transport produced for the current call
    resp        \* the Response object of the current call

vars == <<store, lastw, hres, credentials, raise_for_status, pc, arg, req,
          members, ci, tmpfiles, exc, req0, prev, wire, resp>>

hvars == <<store, lastw, hres>>
avars == <<credentials, raise_for_status, pc, arg, req, members, ci, tmpfiles,
           exc, req0, prev, wire, resp>>

(***************************************************************************)
(* Optional values                                                         *)
(***************************************************************************)
None == <<>>
Some(x) == <<x>>
IsNone(o) == Len(o) = 0
Val(o) == o[1]

(***************************************************************************)
(* str and str.lower()                                                     *)
(***************************************************************************)
UpperLetters == <<"A","B","C","D","E","F","G","H","I","J","K","L","M",
                  "N","O","P","Q","R","S","T","U","V","W","X","Y","Z">>
LowerLetters == <<"a","b","c","d","e","f","g","h","i","j","k","l","m",
                  "n","o","p","q","r","s","t","u","v","w","x","y","z">>

\* the lower-case letter of each upper-case letter
LowerOf ==
    [c \in {UpperLetters[i] : i \in DOMAIN UpperLetters} |->
        LowerLetters[CHOOSE i \in DOMAIN UpperLetters : UpperLetters[i] = c]]

LowerChar(c) == IF c \in DOMAIN LowerOf THEN LowerOf[c] ELSE c

StrLower(s) == [i \in 1..Len(s) |-> LowerChar(s[i])]

(***************************************************************************)
(* dict                                                                    *)
(***************************************************************************)
EmptyDict == <<>>
DictKeys(d) == {d[i][1] : i \in DOMAIN d}
DictHas(d, k) == \E i \in DOMAIN d : d[i][1] = k
DictAt(d, k) == d[CHOOSE i \in DOMAIN d : d[i][1] = k][2]

\* dict.__setitem__: an existing key keeps its position
DictSetItem(d, k, v) ==
    IF DictHas(d, k)
    THEN [i \in DOMAIN d |-> IF d[i][1] = k THEN <<k, v>> ELSE d[i]]
    ELSE Append(d, <<k, v>>)

\* dict.__delitem__ of a key that is present
DictDelItem(d, k) == SelectSeq(d, LAMBDA p : p[1] # k)

\* dict.get(k): the value, or None
DictGet(d, k) == IF DictHas(d, k) THEN Some(DictAt(d, k)) ELSE None

\* dict.update(e): e's items in e's order
RECURSIVE DictUpdate(_, _)
DictUpdate(d, e) ==
    IF Len(e) = 0 THEN d
    ELSE DictUpdate(DictSetItem(d, e[1][1], e[1][2]), Tail(e))

\* dict.__eq__: the same keys with the same values, whatever the order
DictEq(d, e) ==
    /\ DictKeys(d) = DictKeys(e)
    /\ \A k \in DictKeys(d) : DictAt(d, k) = DictAt(e, k)

(***************************************************************************)
(* headers.LowerCase / headers.Headers                                     *)
(***************************************************************************)
\* the outcome of an operation that returns a value or raises
Ret(v) == [raised |-> "", value |-> Some(v)]
RetNone == [raised |-> "", value |-> None]
Raise(e) == [raised |-> e, value |-> None]

\* LowerCase.__setitem__
LowerCaseSetItem(d, key, value) == DictSetItem(d, StrLower(key), value)

\* LowerCase.__init__(kws)
RECURSIVE LowerCaseInitFrom(_, _)
LowerCaseInitFrom(d, kws) ==
    IF Len(kws) = 0 THEN d
    ELSE LowerCaseInitFrom(LowerCaseSetItem(d, kws[1][1], kws[1][2]), Tail(kws))
LowerCaseInit(kws) == LowerCaseInitFrom(EmptyDict, kws)

\* LowerCase.__getitem__
LowerCaseGetItem(d, key) ==
    IF DictHas(d, StrLower(key)) THEN Ret(DictAt(d, StrLower(key)))
    ELSE Raise("KeyError")

\* LowerCase.__delitem__: the dict after it, and KeyError for an absent key
LowerCaseDelItem(d, key) ==
    IF DictHas(d, StrLower(key)) THEN DictDelItem(d, StrLower(key)) ELSE d
LowerCaseDelItemOutcome(d, key) ==
    IF DictHas(d, StrLower(key)) THEN RetNone ELSE Raise("KeyError")

\* LowerCase.update
LowerCaseUpdate(d, data) ==
    DictUpdate(d, DictUpdate(EmptyDict,
                   [i \in DOMAIN data |-> <<StrLower(data[i][1]), data[i][2]>>]))

\* LowerCase.get: not overridden, so it is dict.get on the key as given
LowerCaseGet(d, key) == [raised |-> "", value |-> DictGet(d, key)]

(***************************************************************************)
(* Header names and values used by the model                               *)
(***************************************************************************)
\* header names, as the caller may spell them
Accept == <<"A","c","c","e","p","t">>
accept == <<"a","c","c","e","p","t">>
ACCEPT == <<"A","C","C","E","P","T">>
AcceptEncoding == <<"A","c","c","e","p","t","-","E","n","c","o","d","i","n","g">>
acceptencoding == <<"a","c","c","e","p","t","-","e","n","c","o","d","i","n","g">>
ContentType == <<"C","o","n","t","e","n","t","-","T","y","p","e">>
Authorization == <<"A","u","t","h","o","r","i","z","a","t","i","o","n">>
XKey == <<"X","-","K","e","y">>
xkey == <<"x","-","k","e","y">>

\* two one-character strings that are the same letter
SameLetter(a, b) ==
    \/ a = b
    \/ \E i \in DOMAIN UpperLetters : {a, b} = {UpperLetters[i], LowerLetters[i]}

\* two names that differ at most in letter case
CaseVariants(n1, n2) ==
    /\ Len(n1) = Len(n2)
    /\ \A i \in 1..Len(n1) : SameLetter(n1[i], n2[i])

(***************************************************************************)
(* SpecHeaders: a LowerCase store under set, delete, update and reads      *)
(***************************************************************************)
HNames == {Accept, accept, ACCEPT, XKey, xkey}
HValues == {<<"v1">>, <<"v2">>}

\* the dicts handed to update: at most two items, keys distinct as spelled
HUpdates ==
    {<<>>} \cup {<< <<n, v>> >> : n \in HNames, v \in HValues}
           \cup {<< <<n1, v1>>, <<n2, v2>> >> :
                    n1 \in {Accept, accept}, n2 \in {ACCEPT, xkey},
                    v1 \in {<<"v1">>}, v2 \in HValues}

\* the reference: a write under n is a write under every case variant of n
WriteRef(w, n, v) == [m \in HNames |-> IF CaseVariants(m, n) THEN v ELSE w[m]]
RECURSIVE UpdateRef(_, _)
UpdateRef(w, data) ==
    IF Len(data) = 0 THEN w
    ELSE UpdateRef(WriteRef(w, data[1][1], Some(data[1][2])), Tail(data))

HSetItem(n, v) ==
    /\ store' = LowerCaseSetItem(store, n, v)
    /\ lastw' = WriteRef(lastw, n, Some(v))
    /\ hres' = [op |-> "setitem", key |-> n, out |-> RetNone]

HDelItem(n) ==
    /\ store' = LowerCaseDelItem(store, n)
    /\ lastw' = IF LowerCaseDelItemOutcome(store, n).raised = ""
                THEN WriteRef(lastw, n, None) ELSE lastw
    /\ hres' = [op |-> "delitem", key |-> n, out |-> LowerCaseDelItemOutcome(store, n)]

HUpdate(data) ==
    /\ store' = LowerCaseUpdate(store, data)
    /\ lastw' = UpdateRef(lastw, data)
    /\ hres' = [op |-> "update", key |-> <<>>, out |-> RetNone]

HGetItem(n) ==
    /\ hres' = [op |-> "getitem", key |-> n, out |-> LowerCaseGetItem(store, n)]
    /\ UNCHANGED <<store, lastw>>

HGet(n) ==
    /\ hres' = [op |-> "get", key |-> n, out |-> LowerCaseGet(store, n)]
    /\ UNCHANGED <<store, lastw>>

(***************************************************************************)
(* json.dumps(...).encode('utf-8') and json.loads                          *)
(*                                                                         *)
(* A JSON object is a dict from str keys to scalar values; a scalar is     *)
(* <<"str", s>> or <<"num", n>>.  The encoded text is its sequence of      *)
(* tokens, each a pair of strings.                                         *)
(***************************************************************************)
LBrace == <<"{", "">>
RBrace == <<"}", "">>
Colon == <<":", "">>
Comma == <<",", "">>
NullTok == <<"null", "">>

RECURSIVE JsonMembers(_)
JsonMembers(d) ==
    IF Len(d) = 0 THEN <<>>
    ELSE << <<"key", d[1][1]>>, Colon, d[1][2] >>
         \o (IF Len(d) > 1 THEN <<Comma>> ELSE <<>>)
         \o JsonMembers(Tail(d))

\* json.dumps(v).encode('utf-8') of v = None or a dict
JsonDumps(v) ==
    IF IsNone(v) THEN <<NullTok>>
    ELSE <<LBrace>> \o JsonMembers(Val(v)) \o <<RBrace>>

\* the number of members of an object text of length n
JsonCount(n) == IF n = 2 THEN 0 ELSE (n - 1) \div 4

JsonWellFormed(b) ==
    /\ Len(b) >= 2
    /\ b[1] = LBrace
    /\ b[Len(b)] = RBrace
    /\ Len(b) = 2 \/ (Len(b) - 1) % 4 = 0
    /\ \A i \in 1..JsonCount(Len(b)) :
          /\ b[4 * i - 2][1] = "key"
          /\ b[4 * i - 1] = Colon
          /\ b[4 * i][1] \in {"str", "num"}
          /\ b[4 * i + 1] = (IF i < JsonCount(Len(b)) THEN Comma ELSE RBrace)

\* json.loads(b.decode('utf-8')) of b = None or bytes
JsonLoads(b) ==
    IF IsNone(b) THEN Raise("TypeError")
    ELSE IF Val(b) = <<NullTok>> THEN Ret(None)
    ELSE IF JsonWellFormed(Val(b))
    THEN Ret(Some(DictUpdate(EmptyDict,
             [i \in 1..JsonCount(Len(Val(b))) |->
                 <<Val(b)[4 * i - 2][2], Val(b)[4 * i]>>])))
    ELSE Raise("JSONDecodeError")

(***************************************************************************)
(* gzip                                                                    *)
(***************************************************************************)
GzipMagic == <<"gzip", "1f8b">>
GzipCompress(b) == <<GzipMagic>> \o b
\* gzip.decompress
GzipDecompress(b) ==
    IF Len(b) = 0 THEN Ret(<<>>)
    ELSE IF b[1] = GzipMagic THEN Ret(Tail(b))
    ELSE Raise("BadGzipFile")

(***************************************************************************)
(* core.urljoin                                                            *)
(***************************************************************************)
RECURSIVE LStrip(_)
LStrip(s) == IF Len(s) > 0 /\ s[1] = "/" THEN LStrip(Tail(s)) ELSE s
RECURSIVE RStrip(_)
RStrip(s) ==
    IF Len(s) > 0 /\ s[Len(s)] = "/" THEN RStrip(SubSeq(s, 1, Len(s) - 1)) ELSE s
Strip(s) == RStrip(LStrip(s))
urljoin(a, b) == Strip(a) \o <<"/">> \o Strip(b)

(***************************************************************************)
(* core.Request and core.JsonRequest                                       *)
(***************************************************************************)
\* Python truthiness of None, a dict, bytes or a str
Truthy(o) == ~IsNone(o) /\ Len(Val(o)) > 0
\* x or y
Or(o, default) == IF Truthy(o) THEN Val(o) ELSE default

\* Request.__new__(cls, **kws): the class of the new object, or ValueError
RequestNew(cls, kws) ==
    IF Truthy(kws.json) /\ Truthy(kws.data) THEN Raise("ValueError")
    ELSE IF Truthy(kws.json) THEN Ret("JsonRequest")
    ELSE Ret(cls)

\* Request.__init__
RequestInit(kws) ==
    LET h0 == LowerCaseInit(Or(kws.headers, EmptyDict))
        h1 == LowerCaseSetItem(h0, Accept,
                  Or(LowerCaseGet(h0, Accept).value, <<"*/*">>))
        h2 == LowerCaseSetItem(h1, AcceptEncoding,
                  Or(LowerCaseGet(h1, AcceptEncoding).value, <<"gzip, deflate, br">>))
    IN [url |-> kws.url, method |-> kws.method, headers |-> h2,
        json |-> kws.json, jsonRef |-> kws.jsonRef, data |-> kws.data,
        ssl_context |-> kws.ssl_context]

\* JsonRequest.__init__
JsonRequestInit(kws) ==
    [RequestInit(kws) EXCEPT
        !.headers = LowerCaseSetItem(@, ContentType, <<"application/json">>)]

\* cls(kws): __new__, then the __init__ of the object's class
Construct(cls, kws) ==
    LET new == RequestNew(cls, kws) IN
    IF new.raised # "" THEN Raise(new.raised)
    ELSE Ret([cls |-> Val(new.value)] @@
             (IF Val(new.value) = "JsonRequest" THEN JsonRequestInit(kws)
              ELSE RequestInit(kws)))

\* Request.data / JsonRequest.data
RequestData(r) ==
    IF r.cls = "JsonRequest" THEN Some(JsonDumps(r.json)) ELSE r.data

\* Request.get_request_kws / JsonRequest.get_request_kws
GetRequestKws(r) ==
    [url |-> r.url, method |-> r.method, headers |-> r.headers,
     data |-> IF r.cls = "JsonRequest" /\ ~IsNone(r.json)
              THEN Some(JsonDumps(r.json)) ELSE RequestData(r)]

(***************************************************************************)
(* Credentials.  A credential object is a record                           *)
(*   kind: its class; headers: HeaderSecrets' headers; token: BearerToken's *)
(*   token; fields: JsonBodyCredentials' fields; pemOk: whether            *)
(*   ClientSslCertificate's certificate and key are material that          *)
(*   load_cert_chain accepts; context: ClientSslCertificate's cached       *)
(*   context.                                                              *)
(* The state a preprocess operation works on is a record                   *)
(*   req: the request; members: the credential objects; files: the         *)
(*   temporary files on disk; exc: the exception raised ("" if none).      *)
(* req.jsonRef tells which object req.json is: 0 for the caller's own      *)
(* dict, i for the fields dict of members[i] (the same object, so an       *)
(* in-place update of one is an update of the other).                      *)
(***************************************************************************)
Credential(kind) ==
    [kind |-> kind, headers |-> EmptyDict, token |-> <<>>, fields |-> EmptyDict,
     pemOk |-> FALSE, context |-> None]

\* ApiCredential.preprocess_request's `getattr(self, 'headers', {})`
CredentialHeaders(c) ==
    CASE c.kind = "HeaderSecrets" -> c.headers
      [] c.kind = "BearerToken" -> << <<Authorization, <<"Bearer ">> \o c.token>> >>
      [] OTHER -> EmptyDict

\* ApiCredential.preprocess_request
ApiCredentialPreprocess(i, st) ==
    [st EXCEPT !.req.headers = LowerCaseUpdate(@, CredentialHeaders(st.members[i]))]

\* JsonBodyCredentials.preprocess_request
JsonBodyCredentialsPreprocess(i, st) ==
    LET c == st.members[i]
        r == st.req
    IN IF IsNone(r.json)
       THEN LET kws == GetRequestKws(r)
                made == Construct("JsonRequest",
                           [url |-> kws.url, method |-> kws.method,
                            headers |-> Some(kws.headers), data |-> kws.data,
                            json |-> Some(c.fields), jsonRef |-> i,
                            ssl_context |-> None])
            IN IF made.raised # "" THEN [st EXCEPT !.exc = made.raised]
               ELSE [st EXCEPT !.req = Val(made.value)]
       ELSE LET merged == DictUpdate(Val(r.json), c.fields)
            IN [st EXCEPT !.req.json = Some(merged),
                          !.members = IF r.jsonRef = 0 THEN @
                                      ELSE [@ EXCEPT ![r.jsonRef].fields = merged]]

\* the temporary files ClientSslCertificate.get_context stages
StagedFiles(i) == {<<i, "cert">>, <<i, "key">>}

\* ClientSslCertificate.get_context: the state after it; exc is set when
\* load_cert_chain raised
GetContext(i, st) ==
    LET c == st.members[i] IN
    IF ~IsNone(c.context) THEN st
    ELSE IF c.pemOk
    THEN [st EXCEPT !.members[i].context = Some([loaded |-> TRUE, of |-> i])]
    ELSE [st EXCEPT !.members[i].context = Some([loaded |-> FALSE, of |-> i]),
                    !.files = @ \cup StagedFiles(i),
                    !.exc = "SSLError"]

\* ClientSslCertificate.preprocess_request
ClientSslCertificatePreprocess(i, st) ==
    LET got == GetContext(i, st) IN
    IF got.exc # "" THEN got
    ELSE [got EXCEPT !.req.ssl_context = got.members[i].context]

\* credential.preprocess_request(request) for members[i], by its class
PreprocessOne(i, st) ==
    CASE st.members[i].kind = "JsonBodyCredentials" -> JsonBodyCredentialsPreprocess(i, st)
      [] st.members[i].kind = "ClientSslCertificate" -> ClientSslCertificatePreprocess(i, st)
      [] OTHER -> ApiCredentialPreprocess(i, st)

\* a loop that calls credential.preprocess_request(request) and drops its result
CredentialChainTurnDropsResult(i, st) ==
    [PreprocessOne(i, st) EXCEPT !.req = IF @.cls = st.req.cls THEN @ ELSE st.req]
\* CredentialChain.preprocess_request: one turn of its loop,
\* `request = credential.preprocess_request(request)`
CredentialChainTurn(i, st) == PreprocessOne(i, st)

(***************************************************************************)
(* core.Response, core.ErrorResponse, core.UnknownResponse                 *)
(*                                                                         *)
(* A transport result (http.client.HTTPResponse or urllib.error.HTTPError) *)
(* is a record  code: its status code, None when the object has no `code`; *)
(* encoding: what headers.get('Content-Encoding') returns; body: what      *)
(* read() returns.  A body sent with Content-Encoding gzip is gzip data.   *)
(* Response construction takes kws.response = None or such a record.             *)
(***************************************************************************)
\* getattr(kws.get('response'), 'code', -1)
ResponseCode(kws) ==
    IF IsNone(kws.response) \/ IsNone(Val(kws.response).code) THEN -1
    ELSE Val(Val(kws.response).code)

\* a dispatch that takes 300 for a success
ResponseNewOffByOne(kws) ==
    IF ResponseCode(kws) = -1 THEN "UnknownResponse"
    ELSE IF 200 <= ResponseCode(kws) /\ ResponseCode(kws) <= 300 THEN "Response"
    ELSE "ErrorResponse"
\* Response.__new__
ResponseNew(kws) ==
    IF ResponseCode(kws) = -1 THEN "UnknownResponse"
    ELSE IF 200 <= ResponseCode(kws) /\ ResponseCode(kws) < 300 THEN "Response"
    ELSE "ErrorResponse"

\* Response.__init__ on an object of class cls
ResponseInit(cls, kws) ==
    IF IsNone(kws.response) THEN Raise("AttributeError")
    ELSE LET enc == Val(kws.response).encoding
             unz == GzipDecompress(kws.content)
         IN IF enc = Some(<<"gzip">>) /\ unz.raised # "" THEN Raise(unz.raised)
            ELSE Ret([cls |-> cls,
                      code |-> Val(kws.response).code,
                      content |-> IF enc = Some(<<"gzip">>) THEN Val(unz.value)
                                  ELSE kws.content,
                      content_encoding |-> enc,
                      request |-> kws.request])

\* Response(kws)
ResponseConstruct(kws) == ResponseInit(ResponseNew(kws), kws)

\* Response.ok: self.code is the transport result's code, through __getattr__
ResponseOk(r) ==
    IF IsNone(r.code) THEN Raise("AttributeError")
    ELSE Ret(200 <= Val(r.code) /\ Val(r.code) < 300)

\* Response.raise_ / ErrorResponse.raise_
ResponseRaise(r) == IF r.cls = "ErrorResponse" THEN Raise("ApiError") ELSE RetNone

(***************************************************************************)
(* Request.execute.  t is what the network does once urlopen sends the     *)
(* request: None for a failure without a status line (URLError), else the  *)
(* transport result.  urlopen returns the result for a 2xx code and raises *)
(* it as HTTPError for any other; urlopen has no `ssl_context` parameter,  *)
(* so a call with one raises TypeError before anything is sent.            *)
(***************************************************************************)
Is2xx(t) == 200 <= Val(t.code) /\ Val(t.code) < 300

\* an execute without the `except urllib.error.HTTPError` clause
RequestExecuteNoCatch(r, t) ==
    IF ~IsNone(r.ssl_context) THEN Raise("TypeError")
    ELSE IF IsNone(t) THEN Raise("URLError")
    ELSE IF Is2xx(Val(t))
    THEN ResponseConstruct([content |-> Val(t).body, response |-> t,
                            request |-> Some(GetRequestKws(r))])
    ELSE Raise("HTTPError")
\* Request.execute
RequestExecute(r, t) ==
    IF ~IsNone(r.ssl_context) THEN Raise("TypeError")
    ELSE IF IsNone(t) THEN Raise("URLError")
    ELSE IF Is2xx(Val(t))
    THEN ResponseConstruct([content |-> Val(t).body, response |-> t,
                            request |-> Some(GetRequestKws(r))])
    ELSE ResponseConstruct([content |-> Val(t).body, response |-> t,
                            request |-> Some(GetRequestKws(r))])

\* whether urlopen was reached, so that the transport produced t
Sent(r) == IsNone(r.ssl_context)

(***************************************************************************)
(* The values the model draws from                                         *)
(***************************************************************************)
\* the longest CredentialChain
MaxChain == 2

Num1 == <<"num", "1">>
StrV == <<"str", "v">>
StrW == <<"str", "w">>

\* the credential objects an Api or a CredentialChain is built from
HeaderSecretsCred ==
    [Credential("HeaderSecrets") EXCEPT
        !.headers = << <<XKey, <<"s3">> >>, <<Accept, <<"text/plain">> >> >>]
BearerTokenCred == [Credential("BearerToken") EXCEPT !.token = <<"tok">>]
JsonBodyCred(fields) == [Credential("JsonBodyCredentials") EXCEPT !.fields = fields]
ClientSslCred(ok) == [Credential("ClientSslCertificate") EXCEPT !.pemOk = ok]

CredentialFields == { << <<"k", StrV>> >>, << <<"k", StrW>>, <<"a", StrW>> >> }

\* the credentials a CredentialChain is built from
ChainMembers ==
    {HeaderSecretsCred, BearerTokenCred}
    \cup {JsonBodyCred(f) : f \in CredentialFields}
    \cup {ClientSslCred(ok) : ok \in BOOLEAN}

Chains == UNION {[1..n -> ChainMembers] : n \in 0..MaxChain}

\* Api(url, credentials, raise_for_status): credentials None, one credential
\* object, or a CredentialChain
ApiCredentials ==
    {[kind |-> "ApiCredential", members |-> <<Credential("ApiCredential")>>]}
    \cup {[kind |-> c.kind, members |-> <<c>>] : c \in ChainMembers}
    \cup {[kind |-> "CredentialChain", members |-> ch] : ch \in Chains}

\* Api.url after construction: it carries a scheme
ApiUrl == <<"https:", "/", "/", "h", "/">>

\* the arguments of Api.request
JsonArgs == {None, Some(EmptyDict), Some(<< <<"k", Num1>>, <<"a", Num1>> >>)}
DataArgs == {None, Some(<<>>), Some(<< <<"raw", "x">> >>)}
HeaderArgs == {None, Some(<< <<Accept, <<"text/html">> >> >>)}
CallArgs ==
    {[url |-> <<"/", "x">>, method |-> "GET", json |-> j, data |-> d, headers |-> h] :
        j \in JsonArgs, d \in DataArgs, h \in HeaderArgs}
    \cup {[url |-> <<>>, method |-> "get", json |-> None, data |-> None,
           headers |-> Some(<< <<acceptencoding, <<"identity">> >> >>)]}

\* what the network answers
WireCodes == {200, 299, 300, 404}
GzipCodes == {200, 404}
WireBody == JsonDumps(Some(<< <<"msg", <<"str", "not found">> >> >>))
TransportResults ==
    {[code |-> Some(c), encoding |-> None, body |-> WireBody] : c \in WireCodes}
    \cup {[code |-> Some(c), encoding |-> Some(<<"gzip">>),
           body |-> GzipCompress(WireBody)] : c \in GzipCodes}

(***************************************************************************)
(* Spec: an Api and its calls.  Api.request runs in three kinds of step:   *)
(* ApiRequest (up to the Request's construction), PreprocessStep (one      *)
(* credential's preprocess_request) and Execute (Request.execute, the      *)
(* Response and raise_for_status).                                         *)
(***************************************************************************)
\* the state the credentials work on
PipelineState == [req |-> Val(req), members |-> members, files |-> tmpfiles, exc |-> ""]

ApiRequest(a) ==
    /\ pc \in {"idle", "returned", "raised"}
    /\ LET url == IF Len(a.url) > 0 THEN urljoin(ApiUrl, a.url) ELSE ApiUrl
           made == Construct("Request",
                      [url |-> url, method |-> a.method, headers |-> a.headers,
                       json |-> a.json, jsonRef |-> 0, data |-> a.data,
                       ssl_context |-> None])
       IN /\ arg' = Some(a)
          /\ exc' = made.raised
          /\ req' = made.value
          /\ req0' = IF made.raised = ""
                     THEN Some([req |-> Val(made.value), members |-> members,
                                files |-> tmpfiles, exc |-> ""])
                     ELSE None
          /\ pc' = IF made.raised # "" THEN "raised"
                   ELSE IF Len(members) = 0 THEN "execute"
                   ELSE "preprocess"
    /\ ci' = 1
    /\ prev' = None
    /\ wire' = None
    /\ resp' = None
    /\ UNCHANGED <<credentials, raise_for_status, members, tmpfiles>>
    /\ UNCHANGED hvars

PreprocessStep ==
    /\ pc = "preprocess"
    /\ LET out == CredentialChainTurn(ci, PipelineState)
       IN /\ req' = Some(out.req)
          /\ members' = out.members
          /\ tmpfiles' = out.files
          /\ exc' = out.exc
          /\ pc' = IF out.exc # "" THEN "raised"
                   ELSE IF ci = Len(members) THEN "execute"
                   ELSE "preprocess"
    /\ prev' = Some(PipelineState)
    /\ ci' = ci + 1
    /\ UNCHANGED <<credentials, raise_for_status, arg, req0, wire, resp>>
    /\ UNCHANGED hvars

Execute(t) ==
    /\ pc = "execute"
    /\ LET out == RequestExecute(Val(req), t)
           status == IF out.raised = "" /\ raise_for_status
                     THEN ResponseRaise(Val(out.value)) ELSE RetNone
       IN /\ wire' = IF Sent(Val(req)) THEN t ELSE None
          /\ exc' = IF out.raised # "" THEN out.raised ELSE status.raised
          /\ pc' = IF out.raised # "" \/ status.raised # "" THEN "raised" ELSE "returned"
          /\ resp' = IF out.raised # "" \/ status.raised # "" THEN None ELSE out.value
    /\ UNCHANGED <<credentials, raise_for_status, arg, req, members, ci, tmpfiles,
                   req0, prev>>
    /\ UNCHANGED hvars

HInit ==
    /\ store = LowerCaseInit(EmptyDict)
    /\ lastw = [n \in HNames |-> None]
    /\ hres = [op |-> "init", key |-> <<>>, out |-> RetNone]

CallInit ==
    /\ pc = "idle"
    /\ arg = None
    /\ req = None
    /\ ci = 1
    /\ tmpfiles = {}
    /\ exc = ""
    /\ req0 = None
    /\ prev = None
    /\ wire = None
    /\ resp = None

Init ==
    /\ HInit
    /\ CallInit
    /\ \E c \in ApiCredentials :
          /\ credentials = c.kind
          /\ members = c.members
    /\ raise_for_status \in BOOLEAN

Next ==
    \/ \E a \in CallArgs : ApiRequest(a)
    \/ PreprocessStep
    \/ \E t \in TransportResults \cup {None} :
          Execute(IF t = None THEN None ELSE Some(t))

Spec == Init /\ [][Next]_vars

(***************************************************************************)
(* SpecHeaders: the header store alone                                     *)
(***************************************************************************)
NoApi ==
    /\ credentials = "ApiCredential"
    /\ members = <<Credential("ApiCredential")>>
    /\ raise_for_status = FALSE

InitHeaders == HInit /\ CallInit /\ NoApi

NextHeaders ==
    \/ \E n \in HNames, v \in HValues : HSetItem(n, v) /\ UNCHANGED avars
    \/ \E n \in HNames : HDelItem(n) /\ UNCHANGED avars
    \/ \E d \in HUpdates : HUpdate(d) /\ UNCHANGED avars
    \/ \E n \in HNames : HGetItem(n) /\ UNCHANGED avars
    \/ \E n \in HNames : HGet(n) /\ UNCHANGED avars

SpecHeaders == InitHeaders /\ [][NextHeaders]_vars

(***************************************************************************)
(* SpecResponse: Response construction alone, on every transport result:   *)
(* every status code an HTTP status line can carry, an object without a    *)
(* code, and no object.  A Response is constructed once per call.          *)
(***************************************************************************)
StatusCodes == 100..599
ResponseArgs ==
    {None}
    \cup {Some([code |-> c, encoding |-> e, body |-> b]) :
            c \in {None} \cup {Some(n) : n \in StatusCodes},
            e \in {None, Some(<<"gzip">>)},
            b \in {WireBody, GzipCompress(WireBody)}}

NewResponse(w) ==
    /\ pc = "idle"
    /\ LET out == ResponseConstruct(
                      [content |-> IF IsNone(w) THEN <<>> ELSE Val(w).body,
                       response |-> w, request |-> None])
       IN /\ resp' = out.value
          /\ exc' = out.raised
          /\ pc' = IF out.raised # "" THEN "raised" ELSE "returned"
    /\ wire' = w
    /\ UNCHANGED <<credentials, raise_for_status, arg, req, members, ci,
                   tmpfiles, req0, prev>>
    /\ UNCHANGED hvars

NextResponse == \E w \in ResponseArgs : NewResponse(w)

SpecResponse == InitHeaders /\ [][NextResponse]_vars

(***************************************************************************)
(* Claims                                                                  *)
(***************************************************************************)
InRange(c) == 200 <= c /\ c <= 299

C3_ReadsIgnoreCase ==
    /\ hres.op \in {"getitem", "get"} => hres.out.value = lastw[hres.key]
    /\ \A n1 \in HNames, n2 \in HNames :
          CaseVariants(n1, n2) =>
              /\ LowerCaseGetItem(store, n1) = LowerCaseGetItem(store, n2)
              /\ LowerCaseGet(store, n1) = LowerCaseGet(store, n2)

\* the request of the current call, just constructed
Constructed == pc \in {"preprocess", "execute"} /\ ci = 1

\* b (None or bytes) parses as JSON to the dict d
DecodesTo(b, d) ==
    /\ JsonLoads(b).raised = ""
    /\ ~IsNone(Val(JsonLoads(b).value))
    /\ DictEq(Val(Val(JsonLoads(b).value)), d)

\* C4: a Request built with a JSON body, the empty object included, has
\* Content-Type application/json and a body that parses back to that value.
C4_JsonBodyRoundTrips ==
    (Constructed /\ ~IsNone(Val(arg).json)) =>
        /\ LowerCaseGetItem(Val(req).headers, ContentType) = Ret(<<"application/json">>)
        /\ DecodesTo(GetRequestKws(Val(req)).data, Val(Val(arg).json))

\* the last preprocess step was the JsonBodyCredentials at index ci - 1, and
\* nothing has run since
AfterJsonBodyCredentials ==
    /\ ~IsNone(prev)
    /\ Val(prev).members[ci - 1].kind = "JsonBodyCredentials"
    /\ pc \in {"preprocess", "execute"} \/ (pc = "raised" /\ exc = "ValueError")

\* R overlaid with F, as a function from keys to values
Overlay(R, F) ==
    [k \in DictKeys(R) \cup DictKeys(F) |->
        IF DictHas(F, k) THEN DictAt(F, k) ELSE DictAt(R, k)]
AsFunction(d) == [k \in DictKeys(d) |-> DictAt(d, k)]

\* C5: after JsonBodyCredentials(F).preprocess_request(r) the body handed to
\* the transport decodes to r's JSON body (the empty object if it has none)
\* overlaid with F.
C5_BodyIsRequestOverlaidWithFields ==
    AfterJsonBodyCredentials =>
        LET r == Val(prev).req
            F == Val(prev).members[ci - 1].fields
            R == IF IsNone(r.json) THEN EmptyDict ELSE Val(r.json)
            b == GetRequestKws(Val(req)).data
        IN /\ pc # "raised"
           /\ JsonLoads(b).raised = ""
           /\ ~IsNone(Val(JsonLoads(b).value))
           /\ AsFunction(Val(Val(JsonLoads(b).value))) = Overlay(R, F)

\* the preprocess operations of members 1..k, each on what the one before
\* returned: for k = 2, B.preprocess_request(A.preprocess_request(r)); an
\* exception ends the sequence
RECURSIVE PreprocessSeq(_, _)
PreprocessSeq(k, st) ==
    IF k = 0 THEN st
    ELSE LET s == PreprocessSeq(k - 1, st)
         IN IF s.exc # "" THEN s ELSE PreprocessOne(k, s)

\* the request, the credential objects and the files as they are now
Current == [req |-> Val(req), members |-> members, files |-> tmpfiles, exc |-> exc]

\* the chain's preprocess_request has returned or raised
ChainDone ==
    /\ credentials = "CredentialChain"
    /\ ~IsNone(req0)
    /\ pc = "execute" \/ (pc = "raised" /\ exc \in {"ValueError", "SSLError"})

\* C6: CredentialChain(A, B).preprocess_request(r) gives what
\* B.preprocess_request(A.preprocess_request(r)) gives; a chain gives the
\* left-to-right fold of its members' preprocess operations, at every turn of
\* its loop, and the empty chain gives r itself.
C6_ChainIsLeftFold ==
    /\ (credentials = "CredentialChain" /\ pc = "preprocess") =>
           Current = PreprocessSeq(ci - 1, Val(req0))
    /\ ChainDone => Current = PreprocessSeq(Len(members), Val(req0))
    /\ (ChainDone /\ Len(members) = 0) => Current = Val(req0)
    /\ (ChainDone /\ Len(members) = 2) =>
           LET a == PreprocessOne(1, Val(req0))
           IN Current = IF a.exc # "" THEN a ELSE PreprocessOne(2, a)

C6_Witness ==
    /\ ChainDone
    /\ pc = "execute"
    /\ Len(members) = 2
    /\ members[1].kind = "HeaderSecrets"
    /\ members[2].kind = "JsonBodyCredentials"
    /\ Val(req).cls = "JsonRequest"
    /\ Val(req0).req.cls = "Request"

\* C7: a Request given both a JSON payload and a raw body fails with
\* ValueError at construction, so no constructed Request has both set.
C7_JsonAndDataExclusive ==
    /\ (~IsNone(arg) /\ ~IsNone(Val(arg).json) /\ ~IsNone(Val(arg).data)) =>
           pc = "raised" /\ exc = "ValueError" /\ IsNone(req)
    /\ ~IsNone(req) => IsNone(Val(req).json) \/ IsNone(Val(req).data)

\* the value the caller gave for header h under any spelling, or None
CallerValue(headers, h) ==
    IF IsNone(headers) THEN None
    ELSE IF \E i \in DOMAIN Val(headers) : CaseVariants(Val(headers)[i][1], h)
    THEN Some(Val(headers)[CHOOSE i \in DOMAIN Val(headers) :
                               CaseVariants(Val(headers)[i][1], h)][2])
    ELSE None

KeepsOrDefaults(h, default) ==
    LowerCaseGetItem(Val(req).headers, h) =
        IF IsNone(CallerValue(Val(arg).headers, h)) THEN Ret(default)
        ELSE Ret(Val(CallerValue(Val(arg).headers, h)))

\* C8: a constructed Request carries the caller's Accept and Accept-Encoding
\* under any letter case unchanged, and the defaults where the caller gave
\* none.
C8_DefaultsOnlyWhenUnset ==
    Constructed =>
        /\ KeepsOrDefaults(Accept, <<"*/*">>)
        /\ KeepsOrDefaults(AcceptEncoding, <<"gzip, deflate, br">>)

\* C9: once get_context has returned or raised, none of the temporary
\* certificate and key files it created is left.
C9_NoStagedFileRemains == tmpfiles = {}

\* C10: JsonBodyCredentials on a request without a JSON body returns a request
\* with the same url, method, TLS context and headers other than Content-Type,
\* so the TLS context a ClientSslCertificate attached earlier in a chain is
\* still on the request that is executed.
C10_JsonBodyCredentialsKeepsTheRest ==
    (AfterJsonBodyCredentials /\ pc # "raised" /\ IsNone(Val(prev).req.json)) =>
        LET before == Val(prev).req
            after == Val(req)
        IN /\ after.url = before.url
           /\ after.method = before.method
           /\ after.ssl_context = before.ssl_context
           /\ \A k \in DictKeys(before.headers) \cup DictKeys(after.headers) :
                 k # StrLower(ContentType) =>
                     DictGet(after.headers, k) = DictGet(before.headers, k)

====
